---- MODULE Spec2Model ----
(***************************************************************************)
(* Session coordination between the control process (Electron main,        *)
(* WebSocket server and IPC handlers) and the browser agent (extension      *)
(* background script: connect(), its WebSocket handlers and the tab         *)
(* listeners it registers).                                                 *)
(*                                                                          *)
(* Spec     : the agent, driven by link events, inbound frames, timers and  *)
(*            browser tab events.                                           *)
(* HubSpec  : the control process: accepted links, their close events and   *)
(*            the two broadcast handlers.                                   *)
(***************************************************************************)
EXTENDS Integers, Sequences, FiniteSets, Bags, TLC

\* ---------------------------------------------------------------- bounds
MaxConn == 2        \* connect() calls modelled per agent run
NTabs == 2          \* browser tabs
MaxPending == 2     \* chrome.tabs.query callbacks outstanding at once
MaxInflight == 2    \* onActivated listeners suspended at their first await
MaxLinks == 3       \* connections the server accepts
MaxBroadcasts == 3  \* start/stop requests the control process handles
MaxCsHandlers == 3  \* activateInspector handlers suspended at once in a tab

Conns == 1..MaxConn
Tabs == 1..NTabs
Links == 1..MaxLinks

\* No tab: chrome.tabs.query returned no tab / a falsy tab id.
NoTab == 0

\* Frames the agent can receive: the two tokens the control process sends and
\* one token it never sends.
Frames == {"start", "stop", "pause"}

VARIABLES
    \* ---- agent (content/index.ts) ----
    nConn,        \* number of connect() calls made so far
    wsState,      \* readyState of the WebSocket each connect() created
    recording,    \* `recording` of each connect() closure
    tabStates,    \* `tabStates` of each connect() closure: tab -> "ON" | "undefined"
    registered,   \* whether that closure's onopen added its tab listeners
    timers,       \* setTimeout callbacks scheduled by onclose and not yet run
    badge,        \* chrome.action badge text
    pendingQuery, \* chrome.tabs.query calls whose callback has not run yet (FIFO)
    inflight,     \* onActivated listeners suspended at their first await (a bag)
    open,         \* browser: the tabs that exist
    focused,      \* browser: the active tab of the current window, or NoTab
    issued,       \* chrome.tabs.sendMessage calls made by the latest step, in order
    ev,           \* the latest step: which handler ran, for which closure and tab
    lastFrame,    \* history: last frame each WebSocket delivered ("none" before any)
    lastTabEvent, \* history: last lifecycle event the browser raised for each tab
    \* ---- control process (main.js) ----
    clients,      \* the `clients` array: link ids in push order
    linkState,    \* each server-side link: "NONE" | "OPEN" | "CLOSED"
    hubCmd,       \* the latest broadcast's command ("none" before any)
    hubCalls,     \* links on which the latest broadcast called send, in order
    hubGot,       \* links that were handed the frame by the latest broadcast, in order
    hubLive,      \* history: the links that were OPEN when the latest broadcast ran
    hubThrew,     \* whether the latest broadcast handler ended by an exception
    hubLog,       \* history: the command of every broadcast, in issue order
    hubLiveLog,   \* history: the links that were OPEN at each broadcast
    delivered,    \* per link: the broadcasts (indices of hubLog) handed to it, in order
    \* ---- one tab's content script (content/index.ts, lines 1-44) ----
    inspector,    \* the module variable `inspector`: 0 (undefined) or an instance
    created,      \* number of `new Inspector()` evaluated so far
    active,       \* the Inspector instances that are active
    nImport,      \* activateInspector calls suspended at `await import(...)`
    nCreated,     \* calls whose initialize() has returned, about to run activate()
    csLast,       \* history: the last inspector instruction received
    csNotified    \* the last notification instruction logged

agentVars == <<nConn, wsState, recording, tabStates, registered, timers, badge,
               pendingQuery, inflight, open, focused, issued, ev, lastFrame,
               lastTabEvent>>
hubVars == <<clients, linkState, hubCmd, hubCalls, hubGot, hubLive, hubThrew,
             hubLog, hubLiveLog, delivered>>
csVars == <<inspector, created, active, nImport, nCreated, csLast, csNotified>>
vars == <<agentVars, hubVars, csVars>>

\* ================================================================= agent

\* The record of a step.  data/was: for a query callback the frame that started
\* it and `recording` before that frame; for a resumed listener how its await
\* settled and the branch it had taken.
Step(kind, c, t) == [kind |-> kind, conn |-> c, tab |-> t, data |-> "none", was |-> FALSE]

Msg(t, a) == [tab |-> t, action |-> a]

EmptyTabStates == [t \in Tabs |-> "undefined"]

\* Variant: `recording` is one variable shared by every connect() call.
Connect_SharedRecording(c) ==
    /\ nConn' = c
    /\ wsState' = [wsState EXCEPT ![c] = "CONNECTING"]
    /\ tabStates' = [tabStates EXCEPT ![c] = EmptyTabStates]
    /\ recording' = [d \in Conns |-> FALSE]

\* connect(), lines 62-65: a new socket, an empty tabStates, recording = false.
Connect(c) ==
    /\ nConn' = c
    /\ wsState' = [wsState EXCEPT ![c] = "CONNECTING"]
    /\ tabStates' = [tabStates EXCEPT ![c] = EmptyTabStates]
    /\ recording' = [recording EXCEPT ![c] = FALSE]

\* The state right after the script's top-level connect() call (line 160).
AgentInit ==
    /\ nConn = 1
    /\ wsState = [c \in Conns |-> IF c = 1 THEN "CONNECTING" ELSE "NONE"]
    /\ recording = [c \in Conns |-> FALSE]
    /\ tabStates = [c \in Conns |-> EmptyTabStates]
    /\ registered = [c \in Conns |-> FALSE]
    /\ timers = 0
    /\ badge = ""
    /\ pendingQuery = <<>>
    /\ inflight = EmptyBag
    /\ open \in SUBSET Tabs
    /\ focused \in open \cup {NoTab}
    /\ issued = <<>>
    /\ ev = Step("init", 1, NoTab)
    /\ lastFrame = [c \in Conns |-> "none"]
    /\ lastTabEvent = [t \in Tabs |-> "none"]

\* ws.onopen, lines 66-111: badge ON, and the two tab listeners are added.
\* Nothing ever removes a listener.
WsOpen(c) ==
    /\ wsState[c] = "CONNECTING"
    /\ wsState' = [wsState EXCEPT ![c] = "OPEN"]
    /\ badge' = "ON"
    /\ registered' = [registered EXCEPT ![c] = TRUE]
    /\ issued' = <<>>
    /\ ev' = Step("open", c, NoTab)
    /\ UNCHANGED <<nConn, recording, tabStates, timers, pendingQuery, inflight,
                   open, focused, lastFrame, lastTabEvent>>
    /\ UNCHANGED <<hubVars, csVars>>

\* Variant: "stop" is the only token that clears `recording`.
OnMessageRecording_Sticky(data, old) == data = "start" \/ (old /\ data # "stop")

\* Variant: "start" toggles `recording`.
OnMessageRecording_Toggle(data, old) == IF data = "start" THEN ~old ELSE FALSE

\* ws.onmessage, lines 115-119: the new value of `recording`.
OnMessageRecording(data, old) == data = "start"

\* ws.onmessage, lines 113-120: set `recording`, then start chrome.tabs.query;
\* its callback runs in a later task.  The queue entry remembers the frame and
\* the value `recording` had before it (history only: the code captures neither).
WsMessage(c, data) ==
    /\ wsState[c] = "OPEN"
    /\ Len(pendingQuery) < MaxPending
    /\ recording' = [recording EXCEPT ![c] = OnMessageRecording(data, recording[c])]
    /\ pendingQuery' = Append(pendingQuery,
                              [conn |-> c, data |-> data, was |-> recording[c]])
    /\ lastFrame' = [lastFrame EXCEPT ![c] = data]
    /\ issued' = <<>>
    /\ ev' = Step("message", c, NoTab)
    /\ UNCHANGED <<nConn, wsState, tabStates, registered, timers, badge, inflight,
                   open, focused, lastTabEvent>>
    /\ UNCHANGED <<hubVars, csVars>>

\* The first and second instruction of a pair, lines 87-99 and 126-138.
FirstAction(rec) == IF rec THEN "activateInspector" ELSE "deactivateInspector"
SecondAction(rec) == IF rec THEN "activateNotification" ELSE "deactivateNotification"

\* Variant: the notification instruction is sent before the inspector one.
QueryIssued_Swapped(tabId, rec) ==
    IF tabId = NoTab THEN <<>>
    ELSE <<Msg(tabId, SecondAction(rec)), Msg(tabId, FirstAction(rec))>>

\* The body of the chrome.tabs.query callback for one tab, lines 122-139: the
\* pair is chosen by `recording` as it is when the callback runs, and neither
\* sendMessage is awaited.
QueryIssued(tabId, rec) ==
    IF tabId = NoTab THEN <<>>
    ELSE <<Msg(tabId, FirstAction(rec)), Msg(tabId, SecondAction(rec))>>

\* The chrome.tabs.query callback, lines 120-141; {active, currentWindow}
\* yields the focused tab, if there is one.
QueryCallback ==
    /\ Len(pendingQuery) > 0
    /\ LET q == Head(pendingQuery) IN
        /\ issued' = QueryIssued(focused, recording[q.conn])
        /\ ev' = [kind |-> "query", conn |-> q.conn, tab |-> focused,
                  data |-> q.data, was |-> q.was]
    /\ pendingQuery' = Tail(pendingQuery)
    /\ UNCHANGED <<nConn, wsState, recording, tabStates, registered, timers, badge,
                   inflight, open, focused, lastFrame, lastTabEvent>>
    /\ UNCHANGED <<hubVars, csVars>>
    /\ UNCHANGED <<hubVars, csVars>>

\* chrome.tabs.onActivated listener, line 82: the record is written before the
\* branch on `recording`, with the same value on both branches.
OnActivatedState(ts, tabId) == [ts EXCEPT ![tabId] = "ON"]

\* Variant: the listener keeps the record.
OnRemovedState_Keeps(ts, tabId) == ts

\* chrome.tabs.onRemoved listener, line 105.
OnRemovedState(ts, tabId) == [ts EXCEPT ![tabId] = "undefined"]

\* The closures whose listeners are registered, in registration order.
RegisteredSeq == SelectSeq([i \in Conns |-> i], LAMBDA c: registered[c])

\* chrome.tabs.onActivated, lines 79-102, up to each listener's first await:
\* every registered listener runs in turn; each writes its tabStates, reads its
\* own `recording`, sends the first instruction and suspends.
\* A listener of closure c suspended at the first await for tab t, on the
\* branch it took.
Handler(c, t) == [conn |-> c, tab |-> t, rec |-> recording[c]]

TabActivated(t) ==
    /\ t # focused
    /\ BagCardinality(inflight) + Len(RegisteredSeq) <= MaxInflight
    /\ open' = open \cup {t}
    /\ focused' = t
    /\ tabStates' = [c \in Conns |->
                        IF registered[c] /\ t # NoTab
                        THEN OnActivatedState(tabStates[c], t)
                        ELSE tabStates[c]]
    /\ issued' = [i \in 1..Len(RegisteredSeq) |->
                    Msg(t, FirstAction(recording[RegisteredSeq[i]]))]
    /\ inflight' = inflight (+) SetToBag({Handler(c, t) : c \in {d \in Conns : registered[d]}})
    /\ lastTabEvent' = [lastTabEvent EXCEPT ![t] = "activated"]
    /\ ev' = Step("activated", nConn, t)
    /\ UNCHANGED <<nConn, wsState, recording, registered, timers, badge,
                   pendingQuery, lastFrame>>
    /\ UNCHANGED <<hubVars, csVars>>

\* What a listener does when its first await settles, lines 87-99: on
\* fulfilment it sends the second instruction of the branch it took; on
\* rejection (no receiver in the tab, or the tab is gone) the await throws and
\* the listener ends there.
ResumeIssued(h, ok) == IF ok THEN <<Msg(h.tab, SecondAction(h.rec))>> ELSE <<>>

ListenerResume(h, ok) ==
    /\ BagIn(h, inflight)
    /\ issued' = ResumeIssued(h, ok)
    /\ inflight' = inflight (-) SetToBag({h})
    /\ ev' = [kind |-> "resume", conn |-> h.conn, tab |-> h.tab,
              data |-> IF ok THEN "fulfilled" ELSE "rejected", was |-> h.rec]
    /\ UNCHANGED <<nConn, wsState, recording, tabStates, registered, timers, badge,
                   pendingQuery, open, focused, lastFrame, lastTabEvent>>
    /\ UNCHANGED <<hubVars, csVars>>

\* chrome.tabs.onRemoved, lines 104-109: every registered listener deletes the
\* tab's entry from its tabStates and sets the badge to OFF.
TabRemoved(t) ==
    /\ t \in open
    /\ open' = open \ {t}
    /\ focused' = IF focused = t THEN NoTab ELSE focused
    /\ tabStates' = [c \in Conns |->
                        IF registered[c]
                        THEN OnRemovedState(tabStates[c], t)
                        ELSE tabStates[c]]
    /\ badge' = IF Len(RegisteredSeq) > 0 THEN "OFF" ELSE badge
    /\ lastTabEvent' = [lastTabEvent EXCEPT ![t] = "removed"]
    /\ issued' = <<>>
    /\ ev' = Step("removed", nConn, t)
    /\ UNCHANGED <<nConn, wsState, recording, registered, timers, pendingQuery,
                   inflight, lastFrame>>
    /\ UNCHANGED <<hubVars, csVars>>

\* ws.close() as called from ws.onerror, line 156: it starts closing a socket
\* that is CONNECTING or OPEN and does nothing to one that is CLOSING or CLOSED.
WsCloseCall(state) ==
    IF state \in {"CONNECTING", "OPEN"} THEN "CLOSING" ELSE state

\* Variant: onerror schedules a reconnect of its own.
OnErrorTimers_Reconnects(n) == n + 1

\* ws.onerror, lines 154-157: timers it schedules (none).
OnErrorTimers(n) == n

\* Variant: onclose schedules two reconnects.
OnCloseTimers_Twice(n) == n + 2

\* Variant: onclose schedules no reconnect.
OnCloseTimers_None(n) == n

\* ws.onclose, lines 144-152: one setTimeout(connect, 1000).
OnCloseTimers(n) == n + 1

\* The peer closes an open link: the close event alone.
WsClose(c) ==
    /\ wsState[c] = "OPEN"
    /\ wsState' = [wsState EXCEPT ![c] = "CLOSED"]
    /\ badge' = "OFF"
    /\ timers' = OnCloseTimers(timers)
    /\ issued' = <<>>
    /\ ev' = Step("close", c, NoTab)
    /\ UNCHANGED <<nConn, recording, tabStates, registered, pendingQuery, inflight,
                   open, focused, lastFrame, lastTabEvent>>
    /\ UNCHANGED <<hubVars, csVars>>

\* The connection fails (refused, reset), before or after it opened: the
\* browser sets readyState to CLOSED and fires error, then close, in one task.
WsFail(c) ==
    /\ wsState[c] \in {"CONNECTING", "OPEN"}
    /\ wsState' = [wsState EXCEPT ![c] = WsCloseCall("CLOSED")]
    /\ badge' = "OFF"
    /\ timers' = OnCloseTimers(OnErrorTimers(timers))
    /\ issued' = <<>>
    /\ ev' = Step("fail", c, NoTab)
    /\ UNCHANGED <<nConn, recording, tabStates, registered, pendingQuery, inflight,
                   open, focused, lastFrame, lastTabEvent>>
    /\ UNCHANGED <<hubVars, csVars>>

\* The setTimeout callback of onclose, lines 149-151: connect().
TimerFire ==
    /\ timers > 0
    /\ nConn < MaxConn
    /\ timers' = timers - 1
    /\ Connect(nConn + 1)
    /\ issued' = <<>>
    /\ ev' = Step("timer", nConn + 1, NoTab)
    /\ UNCHANGED <<registered, badge, pendingQuery, inflight, open, focused,
                   lastFrame, lastTabEvent>>
    /\ UNCHANGED <<hubVars, csVars>>

\* =================================================================== hub

HubInit ==
    /\ clients = <<>>
    /\ linkState = [l \in Links |-> "NONE"]
    /\ hubCmd = "none"
    /\ hubCalls = <<>>
    /\ hubGot = <<>>
    /\ hubLive = {}
    /\ hubThrew = FALSE
    /\ hubLog = <<>>
    /\ hubLiveLog = <<>>
    /\ delivered = [l \in Links |-> <<>>]

\* wss.on("connection"), lines 10-30: clients.push(ws).
OnConnectionClients(cs, l) == Append(cs, l)

Accept ==
    /\ Len(clients) < MaxLinks
    /\ LET l == Len(clients) + 1 IN
        /\ clients' = OnConnectionClients(clients, l)
        /\ linkState' = [linkState EXCEPT ![l] = "OPEN"]
    /\ UNCHANGED <<hubCmd, hubCalls, hubGot, hubLive, hubThrew, hubLog, hubLiveLog,
                   delivered>>
    /\ UNCHANGED <<agentVars, csVars>>

\* ws.on("close"), lines 23-25: the handler logs and leaves `clients` alone.
OnCloseClients(cs, l) == cs

LinkClose(l) ==
    /\ linkState[l] = "OPEN"
    /\ linkState' = [linkState EXCEPT ![l] = "CLOSED"]
    /\ clients' = OnCloseClients(clients, l)
    /\ UNCHANGED <<hubCmd, hubCalls, hubGot, hubLive, hubThrew, hubLog, hubLiveLog,
                   delivered>>
    /\ UNCHANGED <<agentVars, csVars>>

\* clients[i].send(...), lines 85 and 92, as the ws library answers it: an OPEN
\* socket takes the frame; on a socket that is no longer OPEN the call either
\* returns without sending or throws "WebSocket is not open", depending on the
\* library version installed.
SendOutcomes(state) ==
    IF state = "OPEN" THEN {"sent"} ELSE {"dropped", "throws"}

\* send on an OPEN socket, lines 85 and 92: the frame is written to the link
\* behind the frames sent on it before.
SendFrame(q, frame) == Append(q, frame)

\* Index of the first send that throws, or Len + 1 when none does.
FirstThrow(f, n) ==
    IF \E i \in 1..n : f[i] = "throws"
    THEN CHOOSE i \in 1..n : f[i] = "throws" /\ \A j \in 1..(i - 1) : f[j] # "throws"
    ELSE n + 1

\* The for-in loop of a broadcast handler, lines 83-86 and 90-93: send is called
\* on each element of `clients` in index order, with no try/catch, so the
\* first send that throws ends the handler.
Broadcast(cmd) ==
    /\ Len(hubLog) < MaxBroadcasts
    /\ \E f \in [1..Len(clients) -> {"sent", "dropped", "throws"}] :
        /\ \A i \in 1..Len(clients) : f[i] \in SendOutcomes(linkState[clients[i]])
        /\ LET k == FirstThrow(f, Len(clients))
               called == SubSeq(clients, 1, IF k > Len(clients) THEN Len(clients) ELSE k)
           IN  /\ hubCalls' = called
               /\ hubGot' = SelectSeq(SubSeq(clients, 1, k - 1),
                                      LAMBDA l : linkState[l] = "OPEN")
               /\ hubThrew' = (k <= Len(clients))
               /\ delivered' = [l \in Links |->
                                  IF \E i \in 1..(k - 1) :
                                        clients[i] = l /\ linkState[l] = "OPEN"
                                  THEN SendFrame(delivered[l], Len(hubLog) + 1)
                                  ELSE delivered[l]]
    /\ hubLog' = Append(hubLog, cmd)
    /\ hubLiveLog' = Append(hubLiveLog, {l \in Links : linkState[l] = "OPEN"})
    /\ hubCmd' = cmd
    /\ hubLive' = {l \in Links : linkState[l] = "OPEN"}
    /\ UNCHANGED <<clients, linkState>>
    /\ UNCHANGED <<agentVars, csVars>>

\* ipcMain.handle('start'), lines 81-87.
HandleStart == Broadcast("start")

\* ipcMain.handle('stop'), lines 88-94.
HandleStop == Broadcast("stop")

\* ======================================================== content script

\* `let inspector` (line 3) is undefined until initialize() assigns it.
Undefined == 0

CsInit ==
    /\ inspector = Undefined
    /\ created = 0
    /\ active = {}
    /\ nImport = 0
    /\ nCreated = 0
    /\ csLast = "none"
    /\ csNotified = "none"

\* Inspector.activate() and Inspector.deactivate(): idempotent switches of one
\* instance.
InspectorActivate(act, inst) == act \cup {inst}
InspectorDeactivate(act, inst) == act \ {inst}

\* activateInspector(), lines 11-17, up to its first await: whether the call
\* goes through initialize().
NeedsInitialize(insp) == insp = Undefined

\* The onMessage listener, lines 34-44, for 'activateInspector': with no
\* inspector yet the call suspends in initialize() at `await import(...)`;
\* otherwise inspector.activate() is called at once.  A message is a task of its
\* own: it runs only when no continuation of an earlier task is ready.
CsActivate ==
    /\ nCreated = 0
    /\ csLast' = "activateInspector"
    /\ IF NeedsInitialize(inspector)
       THEN /\ nImport + nCreated < MaxCsHandlers
            /\ nImport' = nImport + 1
            /\ UNCHANGED active
       ELSE /\ active' = InspectorActivate(active, inspector)
            /\ UNCHANGED nImport
    /\ UNCHANGED <<inspector, created, nCreated, csNotified>>
    /\ UNCHANGED <<agentVars, hubVars>>

\* deactivateInspector(), lines 19-24: nothing happens while `inspector` is
\* undefined.
CsDeactivate ==
    /\ nCreated = 0
    /\ csLast' = "deactivateInspector"
    /\ active' = IF inspector # Undefined
                 THEN InspectorDeactivate(active, inspector)
                 ELSE active
    /\ UNCHANGED <<inspector, created, nImport, nCreated, csNotified>>
    /\ UNCHANGED <<agentVars, hubVars>>

\* activateNotification() / deactivateNotification(), lines 26-32: a log line.
CsNotify(action) ==
    /\ nCreated = 0
    /\ csNotified' = action
    /\ UNCHANGED <<inspector, created, active, nImport, nCreated, csLast>>
    /\ UNCHANGED <<agentVars, hubVars>>

\* initialize() after its import has resolved, lines 6-8: a new Inspector is
\* assigned to `inspector`, whatever it held.
CsImportDone ==
    /\ nImport > 0
    /\ nImport' = nImport - 1
    /\ nCreated' = nCreated + 1
    /\ created' = created + 1
    /\ inspector' = created + 1
    /\ UNCHANGED <<active, csLast, csNotified>>
    /\ UNCHANGED <<agentVars, hubVars>>

\* activateInspector() after `await initialize()`, line 16: activate() is called
\* on whatever `inspector` holds now.
CsContinue ==
    /\ nCreated > 0
    /\ nCreated' = nCreated - 1
    /\ active' = InspectorActivate(active, inspector)
    /\ UNCHANGED <<inspector, created, nImport, csLast, csNotified>>
    /\ UNCHANGED <<agentVars, hubVars>>

\* ======================================================== specifications

Init == AgentInit /\ HubInit /\ CsInit

Next ==
    \/ \E c \in Conns : WsOpen(c)
    \/ \E c \in Conns, data \in Frames : WsMessage(c, data)
    \/ QueryCallback
    \/ \E t \in Tabs : TabActivated(t)
    \/ \E h \in BagToSet(inflight), ok \in BOOLEAN : ListenerResume(h, ok)
    \/ \E t \in Tabs : TabRemoved(t)
    \/ \E c \in Conns : WsClose(c)
    \/ \E c \in Conns : WsFail(c)
    \/ TimerFire

Spec == Init /\ [][Next]_vars

\* The agent with its timers running: a setTimeout callback that is due
\* eventually runs (lines 149-151).
FairSpec == Init /\ [][Next]_vars /\ WF_vars(TimerFire)

\* The control process alone; the agent stays as it starts, with no tab open.
HubStart == Init /\ open = {}

HubNext ==
    \/ Accept
    \/ \E l \in Links : LinkClose(l)
    \/ HandleStart
    \/ HandleStop

HubSpec == HubStart /\ [][HubNext]_vars

\* One tab's content script alone, driven by the four instructions.
TabNext ==
    \/ CsActivate
    \/ CsDeactivate
    \/ \E a \in {"activateNotification", "deactivateNotification"} : CsNotify(a)
    \/ CsImportDone
    \/ CsContinue

\* The agent and the control process stay as they start, with no tab open.
TabStart == Init /\ open = {}

TabSpec == TabStart /\ [][TabNext]_vars

\* ================================================================ claims

\* The agent's Session: the closure of the latest connect().
Cur == nConn

ActivatePair(t) == <<Msg(t, "activateInspector"), Msg(t, "activateNotification")>>
DeactivatePair(t) == <<Msg(t, "deactivateInspector"), Msg(t, "deactivateNotification")>>
PairFor(t, rec) == IF rec THEN ActivatePair(t) ELSE DeactivatePair(t)

ClosedCount == Cardinality({c \in Conns : wsState[c] = "CLOSED"})

\* C1: after any sequence of "start"/"stop" frames, the Session command is
\* RECORDING exactly when the last frame received was "start", and IDLE when it
\* was "stop", whatever came before it.
C1_LastFrameWins ==
    \A c \in Conns :
        lastFrame[c] \in {"start", "stop"} => (recording[c] <=> lastFrame[c] = "start")

\* C1 witness: two frames are still waiting for their tab query, "start" received
\* while IDLE and then "stop" received while RECORDING, and the Session is IDLE.
C1_Witness ==
    /\ Len(pendingQuery) = 2
    /\ pendingQuery[1] = [conn |-> Cur, data |-> "start", was |-> FALSE]
    /\ pendingQuery[2] = [conn |-> Cur, data |-> "stop", was |-> TRUE]
    /\ lastFrame[Cur] = "stop"
    /\ ~recording[Cur]

\* C2 (as claimed): while the Session command is IDLE no tab record is ACTIVE
\* ("ON").
C2_IdleNoActive ==
    ~recording[Cur] => \A t \in Tabs : tabStates[Cur][t] # "ON"

\* C3 (as claimed): a tab record is ACTIVE ("ON") exactly when the Session is
\* RECORDING and the tab is the focused one; so at most one record is ACTIVE.
C3_ActiveIffRecordingFocused ==
    \A t \in Tabs : tabStates[Cur][t] = "ON" <=> (recording[Cur] /\ focused = t)

\* C4 (as claimed): between the open of a reconnected link and its first frame,
\* a tab-activated event issues no activateInspector or activateNotification.
C4_FreshLinkIssuesNoActivate ==
    (/\ ev.kind \in {"activated", "resume"}
     /\ Cur > 1
     /\ wsState[Cur] = "OPEN"
     /\ lastFrame[Cur] = "none")
    => \A i \in 1..Len(issued) :
          issued[i].action \notin {"activateInspector", "activateNotification"}

\* C5: connect attempts made plus reconnects still scheduled equal the number
\* of closes plus one: one reconnect per close (an error and its close count
\* once), none without a close.
C5_OneReconnectPerClose ==
    nConn + timers = ClosedCount + 1

\* C5 witness: two links have closed, the second by an error, and the second
\* reconnect is scheduled.
C5_Witness ==
    /\ ev.kind = "fail"
    /\ ClosedCount = 2
    /\ nConn = 2
    /\ timers = 1

\* C8: after a frame that is neither "start" nor "stop" the Session command is
\* IDLE, whatever it was before.
C8_UnrecognizedIsIdle ==
    \A c \in Conns :
        lastFrame[c] \notin {"none", "start", "stop"} => ~recording[c]

\* C8 witness: "pause" was received while RECORDING, on a link that is still
\* open, and the Session is IDLE.
C8_Witness ==
    /\ ev.kind = "message"
    /\ wsState[Cur] = "OPEN"
    /\ lastFrame[Cur] = "pause"
    /\ Len(pendingQuery) > 0
    /\ pendingQuery[Len(pendingQuery)] = [conn |-> Cur, data |-> "pause", was |-> TRUE]
    /\ ~recording[Cur]

\* C9 (as claimed): the tab query of a "start" frame received while IDLE sends
\* the focused tab activateInspector then activateNotification, once each; that
\* of a frame taking the Session to IDLE sends the two deactivate instructions.
C9_PairFollowsFrame ==
    (ev.kind = "query" /\ ev.tab # NoTab) =>
        /\ (ev.data = "start" /\ ~ev.was) => issued = ActivatePair(ev.tab)
        /\ (ev.data # "start" /\ ev.was) => issued = DeactivatePair(ev.tab)

\* C9 (amended): the tab query of a frame sends the tab focused when it
\* completes the pair of the Session command current at that moment, inspector
\* then notification, once each; when no later frame has been received on that
\* link by then, that is the pair of the frame itself.
C9_PairFollowsSession ==
    (ev.kind = "query" /\ ev.tab # NoTab) =>
        /\ issued = PairFor(ev.tab, recording[ev.conn])
        /\ (\A i \in 1..Len(pendingQuery) : pendingQuery[i].conn # ev.conn)
              => issued = PairFor(ev.tab, ev.data = "start")

\* C9 witness: the query of a "start" frame received while IDLE has completed
\* with a tab focused and the activate pair was sent to it.
C9_Witness ==
    /\ ev.kind = "query"
    /\ ev.tab # NoTab
    /\ ev.data = "start"
    /\ ~ev.was
    /\ issued = ActivatePair(ev.tab)

\* C10: no closure's registry holds a record for a tab whose latest lifecycle
\* event is its removal, also while a listener activated for that tab is still
\* suspended; and removing a tab that has no record changes no registry.
C10_NoStaleRecord ==
    /\ [](\A c \in Conns, t \in Tabs :
             lastTabEvent[t] = "removed" => tabStates[c][t] = "undefined")
    /\ [][\A t \in Tabs :
             (/\ ev'.kind = "removed"
              /\ ev'.tab = t
              /\ \A c \in Conns : tabStates[c][t] = "undefined")
             => tabStates' = tabStates]_vars

\* C10 witness: tab 1 was focused while RECORDING and then removed while its
\* listener was still suspended, tab 2 was focused next: a record for 2, none
\* for 1.
C10_Witness ==
    /\ lastTabEvent[1] = "removed"
    /\ lastTabEvent[2] = "activated"
    /\ recording[Cur]
    /\ registered[Cur]
    /\ tabStates[Cur][1] = "undefined"
    /\ tabStates[Cur][2] = "ON"
    /\ BagIn([conn |-> Cur, tab |-> 1, rec |-> TRUE], inflight)

\* C6 (as claimed): every link that is live when a broadcast runs is handed the
\* frame exactly once by it.
C6_EveryLiveLinkOnce ==
    hubCmd # "none" =>
        \A l \in hubLive : Cardinality({i \in 1..Len(hubGot) : hubGot[i] = l}) = 1

\* C7 (as claimed): the live set holds exactly the links accepted and not yet
\* closed.
C7_LiveSetExact ==
    {clients[i] : i \in 1..Len(clients)} = {l \in Links : linkState[l] = "OPEN"}

\* C11 (as claimed): the badge reads "ON" exactly while the agent's link is
\* OPEN.
C11_BadgeOnIffOpen ==
    badge = "ON" <=> wsState[Cur] = "OPEN"

\* C12 (as claimed): a frame whose command equals the current Session command
\* issues no instruction to any tab.
C12_SameCommandIssuesNothing ==
    (ev.kind = "query" /\ (ev.data = "start") = ev.was) => issued = <<>>

\* C13 (as claimed): when delivery of the first instruction of a pair fails,
\* the second instruction of the pair is still issued to that tab.
C13_FailureKeepsSecondInstruction ==
    (ev.kind = "resume" /\ ev.data = "rejected")
        => issued = <<Msg(ev.tab, SecondAction(ev.was))>>

\* C16: `recording` of a closure changes only in the step that receives a
\* frame on that closure's link; tab-activated, tab-removed, settled deliveries
\* and link-open steps leave the agent's Session command as it was.
C16_OnlyFramesChangeSession ==
    [][/\ \A c \in Conns :
            recording'[c] # recording[c] => (ev'.kind = "message" /\ ev'.conn = c)
       /\ ev'.kind \in {"activated", "removed", "resume", "open"}
            => (Cur' = Cur /\ recording'[Cur] = recording[Cur])]_vars

\* C16 witness: while RECORDING, a delivery to a tab has just failed on a
\* second link that is open, with the first link's closure IDLE.
C16_Witness ==
    /\ ev.kind = "resume"
    /\ ev.data = "rejected"
    /\ Cur = 2
    /\ wsState[Cur] = "OPEN"
    /\ recording[Cur]
    /\ ~recording[1]

\* C17 (as claimed): a tab-activated event causes exactly one reconciliation,
\* consistent with the current Session command, however often the link has
\* opened before.
C17_OneReconciliationPerActivation ==
    (ev.kind = "activated" /\ registered[Cur])
        => issued = <<Msg(ev.tab, FirstAction(recording[Cur]))>>

\* C18: at most one link is CONNECTING or OPEN, at most one reconnect timer is
\* pending, and a timer is pending only while no link is CONNECTING or OPEN;
\* every link but the latest is CLOSED.
C18_OneLinkOneTimer ==
    /\ Cardinality({c \in Conns : wsState[c] \in {"CONNECTING", "OPEN"}}) <= 1
    /\ timers <= 1
    /\ timers > 0 => \A c \in Conns : wsState[c] \notin {"CONNECTING", "OPEN"}
    /\ \A c \in Conns : c < Cur => wsState[c] = "CLOSED"
    /\ \A c \in Conns : c > Cur => wsState[c] = "NONE"

\* C18 witness: the first link failed, the reconnect timer ran, and the second
\* link is open with no timer pending.
C18_Witness ==
    /\ Cur = 2
    /\ wsState[1] = "CLOSED"
    /\ wsState[2] = "OPEN"
    /\ ~registered[1]
    /\ timers = 0

\* C14: whenever the agent is disconnected a reconnect is pending, and every
\* link that has terminated (closed after OPEN, or failed before it opened) is
\* eventually followed by a new connect(), for every link within the bound on
\* connect() calls.
C14_EventuallyReconnects ==
    /\ [](wsState[Cur] = "CLOSED" => timers > 0)
    /\ \A c \in 1..(MaxConn - 1) : (wsState[c] = "CLOSED") ~> (nConn > c)

\* C14 witness: the first link failed before it ever opened and a second
\* connect() was made.
C14_Witness ==
    /\ wsState[1] = "CLOSED"
    /\ ~registered[1]
    /\ nConn = 2
    /\ wsState[2] = "CONNECTING"

\* The Session command of the agent on a link after it has received `frames`
\* (indices of hubLog) in order, by the agent's onmessage rule.
RECURSIVE SessionAfter(_)
SessionAfter(frames) ==
    IF frames = <<>> THEN FALSE
    ELSE OnMessageRecording(hubLog[frames[Len(frames)]],
                            SessionAfter(SubSeq(frames, 1, Len(frames) - 1)))

\* C15 (as claimed): of any two broadcasts, a link that is live during both
\* receives the frame of the first before that of the second; so when the last
\* two broadcasts are "start" then "stop", the agent of every link live during
\* both ends IDLE.
C15_PerLinkIssueOrder ==
    /\ \A i, j \in 1..Len(hubLog) :
         i < j =>
           \A l \in hubLiveLog[i] \cap hubLiveLog[j] :
              \E p, q \in 1..Len(delivered[l]) :
                 p < q /\ delivered[l][p] = i /\ delivered[l][q] = j
    /\ (/\ Len(hubLog) >= 2
        /\ hubLog[Len(hubLog) - 1] = "start"
        /\ hubLog[Len(hubLog)] = "stop")
       => \A l \in hubLiveLog[Len(hubLog) - 1] \cap hubLiveLog[Len(hubLog)] :
             ~SessionAfter(delivered[l])

\* C19 (as claimed): when deactivateInspector is the last inspector
\* instruction received and every handler has run to completion, no Inspector
\* is active.
C19_LastInstructionWins ==
    (csLast = "deactivateInspector" /\ nImport = 0 /\ nCreated = 0) => active = {}

\* C20 (as claimed): at most one Inspector instance is ever created.
C20_SingleInspector ==
    created <= 1
====
